---- MODULE Spec2Model ----
(***************************************************************************)
(* A model of zacks_app.py: the Zacks rank scraper (get_zacks_rank), the   *)
(* rating formatter (yahoo_rating_text), the cell colour functions and the *)
(* "Fetch Data" handler that loops over the tickers, builds one row per    *)
(* ticker, sorts the table and styles it.                                  *)
(*                                                                         *)
(* Encoding of Python values:                                              *)
(*   None / NaN        the empty tuple <<>>   (None)                       *)
(*   a present value x the 1-tuple <<x>>      (Some(x))                    *)
(*   analyst mean      an integer number of thousandths (1496 = 1.496)     *)
(*   "%.2f" output     an integer number of hundredths  (150  = "1.50")    *)
(*   prices            integers                                            *)
(* The page text is a sequence of tokens; a token is either noise or a     *)
(* phrase "Zacks Rank #<d> - <word>".                                      *)
(***************************************************************************)
EXTENDS Integers, Sequences, FiniteSets, TLC

\* ------------------------------------------------------------------ bounds
MaxTickers == 2
MaxPageLen == 2
MeanMax == 5000

\* ------------------------------------------------------- optional values
None == <<>>
Some(x) == <<x>>
Val(o) == o[1]
isna(o) == o = None

Min(S) == CHOOSE x \in S : \A y \in S : x <= y

\* ------------------------------------------------------------ CSS strings
StrongGreen == "color:#00cc00; font-weight:bold"
Green == "color:#66cc66"
Yellow == "color:#cccc00"
Red == "color:#ff6666"
StrongRed == "color:#cc0000; font-weight:bold"
NoStyle == ""

\* ------------------------------------------------- the Zacks page and regex
Phrases == {"Strong Buy", "Buy", "Hold", "Sell", "Strong Sell"}
Digits == 0 .. 9

Noise == [kind |-> "noise", d |-> 0, w |-> ""]
Phrase(d, w) == [kind |-> "phrase", d |-> d, w |-> w]

\* what re.search's pattern accepts at one token: (\d) is any decimal digit,
\* the word is one of the five alternatives
Matches(tok) == tok.kind = "phrase" /\ tok.d \in Digits /\ tok.w \in Phrases

HttpFail == [ok |-> FALSE, text |-> <<>>]
HttpOk(text) == [ok |-> TRUE, text |-> text]

NoRank == [num |-> None, text |-> None]

\* f"{rank_num} - {rank_word}"
RankLabel(n, w) == [n |-> n, word |-> w]

get_zacks_rank(r) ==
    IF ~r.ok THEN NoRank
    ELSE LET hits == {i \in 1 .. Len(r.text) : Matches(r.text[i])}
         IN IF hits = {} THEN NoRank
            ELSE LET m == r.text[Min(hits)]
                 IN [num |-> Some(m.d), text |-> Some(RankLabel(m.d, m.w))]

\* --------------------------------------------------------- colour functions
text_color_zacks(val) ==
    IF isna(val) THEN NoStyle
    ELSE IF Val(val).n = 1 THEN StrongGreen
    ELSE IF Val(val).n = 2 THEN Green
    ELSE IF Val(val).n = 3 THEN Yellow
    ELSE IF Val(val).n = 4 THEN Red
    ELSE IF Val(val).n = 5 THEN StrongRed
    ELSE NoStyle

\* the display string of the rating column: "-" or "<x.xx> - <word>"
Dash == [dash |-> TRUE, num |-> 0, txt |-> ""]
Rating(h, w) == [dash |-> FALSE, num |-> h, txt |-> w]

\* val.split(" - ")[0] parsed by float(): the two-decimal number in front,
\* compared with 1.5, 2.5, 3.5, 4.5 (150 .. 450 hundredths)
text_color_yahoo(val) ==
    IF val.dash THEN NoStyle
    ELSE IF val.num < 150 THEN StrongGreen
    ELSE IF val.num < 250 THEN Green
    ELSE IF val.num < 350 THEN Yellow
    ELSE IF val.num < 450 THEN Red
    ELSE StrongRed

text_color_change(val) ==
    IF isna(val) THEN NoStyle
    ELSE IF Val(val) > 0 THEN StrongGreen
    ELSE IF Val(val) < 0 THEN StrongRed
    ELSE NoStyle

text_color_target(val, current_price) ==
    IF isna(val) \/ isna(current_price) THEN NoStyle
    ELSE IF Val(val) > Val(current_price) THEN StrongGreen
    ELSE IF Val(val) < Val(current_price) THEN StrongRed
    ELSE NoStyle

\* ------------------------------------------------------- yahoo_rating_text
\* "%.2f" of a number of thousandths: the nearest hundredth; a value that
\* ends in 5 thousandths goes up or down with its binary representation
\* (1.495 -> "1.50", 2.675 -> "2.67"), which the caller supplies as tieUp
Round2(n, tieUp) ==
    IF n % 10 = 5 THEN (IF tieUp THEN n \div 10 + 1 ELSE n \div 10)
    ELSE (n + 5) \div 10

RatingWordLe(num) ==
    IF num <= 1500 THEN "Strong Buy"
    ELSE IF num <= 2500 THEN "Buy"
    ELSE IF num <= 3500 THEN "Hold"
    ELSE IF num <= 4500 THEN "Sell"
    ELSE "Strong Sell"

RatingWord(num) ==
    IF num < 1500 THEN "Strong Buy"
    ELSE IF num < 2500 THEN "Buy"
    ELSE IF num < 3500 THEN "Hold"
    ELSE IF num < 4500 THEN "Sell"
    ELSE "Strong Sell"

yahoo_rating_text(val, tieUp) ==
    IF isna(val) THEN Dash
    ELSE Rating(Round2(Val(val), tieUp), RatingWord(Val(val)))

\* ----------------------------------------------- the market data source
InfoFail == [ok |-> FALSE, shortName |-> None, recommendationMean |-> None,
             targetMeanPrice |-> None]
InfoFull == [ok |-> TRUE, shortName |-> Some("Co"),
             recommendationMean |-> Some(2000), targetMeanPrice |-> Some(100)]
InfoEmpty == [ok |-> TRUE, shortName |-> None, recommendationMean |-> None,
              targetMeanPrice |-> None]
InfoOutcomes == {InfoFail, InfoFull, InfoEmpty}

HistFail == [ok |-> FALSE, close |-> <<>>]
HistOk(c) == [ok |-> TRUE, close |-> c]
HistOutcomes == {HistFail, HistOk(<<>>), HistOk(<<Some(90)>>),
                 HistOk(<<Some(80), Some(100), Some(110)>>),
                 HistOk(<<Some(0), None, Some(100)>>)}

ZacksResponses == {HttpFail, HttpOk(<<Noise, Phrase(3, "Neutral")>>),
                   HttpOk(<<Noise, Phrase(2, "Buy")>>),
                   HttpOk(<<Phrase(1, "Strong Buy")>>)}

RECURSIVE dropna(_)
dropna(s) ==
    IF s = <<>> THEN <<>>
    ELSE IF isna(Head(s)) THEN dropna(Tail(s))
    ELSE <<Val(Head(s))>> \o dropna(Tail(s))

tail2(s) == IF Len(s) <= 2 THEN s ELSE SubSeq(s, Len(s) - 1, Len(s))

\* ------------------------------------------------ the handler's local names
NoLocals == [rank_num |-> None, rank_text |-> None, today_price |-> None,
             price_change |-> None, analyst_mean |-> None,
             target_price |-> None, company_name |-> None]

KeepLocals(l) == l

ResetLocals(l) ==
    [l EXCEPT !.today_price = None, !.price_change = None,
              !.analyst_mean = None, !.target_price = None,
              !.company_name = None]

\* the try block: an exception leaves the names assigned so far and skips
\* the rest
YahooTry(l, info, hist) ==
    IF ~info.ok THEN l
    ELSE LET l1 == [l EXCEPT !.company_name = info.shortName]
         IN IF ~hist.ok THEN l1
            ELSE LET close_prices == tail2(dropna(hist.close))
                     l2 == IF Len(close_prices) = 2
                           THEN LET prev_close == close_prices[1]
                                    today == close_prices[2]
                                IN [l1 EXCEPT
                                      !.today_price = Some(today),
                                      !.price_change =
                                         IF prev_close # 0
                                         THEN Some(((today - prev_close) * 100)
                                                     \div prev_close)
                                         ELSE None]
                           ELSE IF Len(close_prices) = 1
                           THEN [l1 EXCEPT
                                   !.today_price = Some(close_prices[1]),
                                   !.price_change = None]
                           ELSE [l1 EXCEPT !.today_price = None,
                                           !.price_change = None]
                 IN [l2 EXCEPT
                       !.analyst_mean = info.recommendationMean,
                       !.target_price = info.targetMeanPrice]

MakeRow(t, l) ==
    [Ticker |-> t,
     Company |-> l.company_name,
     ZacksRank |-> l.rank_text,
     YahooAvgRating |-> yahoo_rating_text(l.analyst_mean, FALSE),
     YahooTarget |-> l.target_price,
     CurrentPrice |-> l.today_price,
     TodayPctChange |-> l.price_change,
     ZacksNumeric |-> l.rank_num]

AppendIfRanked(rs, row) ==
    IF isna(row.ZacksNumeric) THEN rs ELSE Append(rs, row)

RowsAppend(rs, row) == Append(rs, row)

\* --------------------------------------------------------------- sort_values
RECURSIVE SelectRows(_, _)
SelectRows(rs, present) ==
    IF rs = <<>> THEN <<>>
    ELSE IF (~isna(Head(rs).ZacksNumeric)) = present
         THEN <<Head(rs)>> \o SelectRows(Tail(rs), present)
         ELSE SelectRows(Tail(rs), present)

RECURSIVE InsertRow(_, _)
InsertRow(sorted, row) ==
    IF sorted = <<>> THEN <<row>>
    ELSE IF Val(row.ZacksNumeric) < Val(Head(sorted).ZacksNumeric)
         THEN <<row>> \o sorted
         ELSE <<Head(sorted)>> \o InsertRow(Tail(sorted), row)

RECURSIVE ArgSort(_)
ArgSort(rs) ==
    IF rs = <<>> THEN <<>>
    ELSE InsertRow(ArgSort(SubSeq(rs, 1, Len(rs) - 1)), rs[Len(rs)])

SortValuesNaFirst(rs) ==
    SelectRows(rs, FALSE) \o ArgSort(SelectRows(rs, TRUE))

\* ascending, rows without a key last (na_position's default)
SortValues(rs) ==
    ArgSort(SelectRows(rs, TRUE)) \o SelectRows(rs, FALSE)

DisplayColumns(row) ==
    [Ticker |-> row.Ticker, Company |-> row.Company,
     ZacksRank |-> row.ZacksRank, YahooAvgRating |-> row.YahooAvgRating,
     YahooTarget |-> row.YahooTarget, CurrentPrice |-> row.CurrentPrice,
     TodayPctChange |-> row.TodayPctChange]

\* ---------------------------------------------------------------- the Styler
\* df_display.loc[df_display['Yahoo Target']==x, 'Current Price'].values[0]
LookupCurrentPrice(dd, x) ==
    dd[Min({j \in 1 .. Len(dd) : dd[j].YahooTarget = x})].CurrentPrice

TargetStyle(dd, x) ==
    text_color_target(x, IF ~isna(x) THEN LookupCurrentPrice(dd, x) ELSE None)

\* "${x:.2f}", "{x:+.2f}%" or "-"
FormatCell(o) == IF isna(o) THEN [dash |-> TRUE, v |-> 0]
                 ELSE [dash |-> FALSE, v |-> Val(o)]

Styler(dd) ==
    [i \in 1 .. Len(dd) |->
        [ZacksRank |-> text_color_zacks(dd[i].ZacksRank),
         YahooAvgRating |-> text_color_yahoo(dd[i].YahooAvgRating),
         YahooTarget |-> TargetStyle(dd, dd[i].YahooTarget),
         TodayPctChange |-> text_color_change(dd[i].TodayPctChange),
         fmtCurrentPrice |-> FormatCell(dd[i].CurrentPrice),
         fmtTodayPctChange |-> FormatCell(dd[i].TodayPctChange),
         fmtYahooTarget |-> FormatCell(dd[i].YahooTarget)]]

\* ------------------------------------------------------------- control flow
RetryIdx(i, failed) == IF failed THEN i ELSE i + 1

\* for t in tickers: the next ticker, whatever the body did
NextIdx(i, failed) == i + 1

YahooFirstPc(p, more) ==
    CASE p = "idle" -> IF more THEN "yahoo" ELSE "warned"
      [] p = "yahoo" -> "zacks"
      [] p = "zacks" -> IF more THEN "yahoo" ELSE "display"
      [] OTHER -> "done"

NextPc(p, more) ==
    CASE p = "idle" -> IF more THEN "zacks" ELSE "warned"
      [] p = "zacks" -> "yahoo"
      [] p = "yahoo" -> IF more THEN "zacks" ELSE "display"
      [] OTHER -> "done"

\* ------------------------------------------------------------------- state
VARIABLES
    tickers,      \* the ticker list of the session
    pc,           \* where the Fetch Data handler is
    idx,          \* index of the loop's current ticker
    locals,       \* the names assigned in the loop body
    rows,         \* rows
    df,           \* df after sort_values
    df_display,   \* df_display
    styled_df,    \* styled_df: per row, the style and format of its cells
    zacksReq,     \* per ticker occurrence: requests sent to the rank source
    yahooReq,     \* per ticker occurrence: market-data attempts made
    zacksRet,     \* per ticker occurrence: what get_zacks_rank returned
    yahooRet,     \* per ticker occurrence: what the market source answered
    r,            \* get_zacks_rank alone: the response to its request
    rank_ret,     \* get_zacks_rank alone: its return value
    val,          \* yahoo_rating_text alone: the analyst mean
    tie,          \* yahoo_rating_text alone: how "%.2f" resolves a tie
    yahoo_display,\* yahoo_rating_text alone: its result
    yahoo_style,  \* text_color_yahoo of that result
    upc           \* position of the stand-alone function runs

vars == <<tickers, pc, idx, locals, rows, df, df_display, styled_df,
          zacksReq, yahooReq, zacksRet, yahooRet,
          r, rank_ret, val, tie, yahoo_display, yahoo_style, upc>>

handlerVars == <<tickers, pc, idx, locals, rows, df, df_display, styled_df,
                 zacksReq, yahooReq, zacksRet, yahooRet>>
rankVars == <<r, rank_ret>>
fmtVars == <<val, tie, yahoo_display, yahoo_style>>

TickerSymbols == {"AAPL", "MSFT"}
TickerLists == UNION {[1 .. n -> TickerSymbols] : n \in 0 .. MaxTickers}

HandlerIdle ==
    /\ pc = "idle"
    /\ idx = 1
    /\ locals = NoLocals
    /\ rows = <<>>
    /\ df = <<>>
    /\ df_display = <<>>
    /\ styled_df = <<>>
    /\ zacksReq = [i \in 1 .. Len(tickers) |-> 0]
    /\ yahooReq = [i \in 1 .. Len(tickers) |-> 0]
    /\ zacksRet = <<>>
    /\ yahooRet = <<>>

RankIdle == r = HttpFail /\ rank_ret = NoRank
FmtIdle == val = None /\ tie = FALSE /\ yahoo_display = Dash
           /\ yahoo_style = NoStyle

\* ------------------------------------------------- the Fetch Data handler
Init ==
    /\ tickers \in TickerLists
    /\ HandlerIdle
    /\ RankIdle
    /\ FmtIdle
    /\ upc = "off"

\* the button: no ticker gives the warning, otherwise rows = [] and the loop
FetchData ==
    /\ pc = "idle"
    /\ pc' = NextPc("idle", tickers # <<>>)
    /\ rows' = <<>>
    /\ UNCHANGED <<tickers, idx, locals, df, df_display, styled_df,
                   zacksReq, yahooReq, zacksRet, yahooRet>>
    /\ UNCHANGED <<rankVars, fmtVars, upc>>

\* rank_num, rank_text = get_zacks_rank(t); time.sleep(0.8)
ZacksStep ==
    /\ pc = "zacks"
    /\ idx <= Len(tickers)
    /\ \E resp \in ZacksResponses :
          LET res == get_zacks_rank(resp)
          IN /\ locals' = [locals EXCEPT !.rank_num = res.num,
                                         !.rank_text = res.text]
             /\ zacksRet' = Append(zacksRet, res)
    /\ zacksReq' = [zacksReq EXCEPT ![idx] = @ + 1]
    /\ pc' = NextPc("zacks", idx < Len(tickers))
    /\ UNCHANGED <<tickers, idx, rows, df, df_display, styled_df,
                   yahooReq, yahooRet>>
    /\ UNCHANGED <<rankVars, fmtVars, upc>>

\* the Yahoo Finance block of the loop body, up to rows.append
YahooStep ==
    /\ pc = "yahoo"
    /\ idx <= Len(tickers)
    /\ \E info \in InfoOutcomes, hist \in HistOutcomes :
          /\ info.ok \/ hist = HistFail
          /\ LET l == YahooTry(ResetLocals(locals), info, hist)
                 failed == ~info.ok \/ ~hist.ok
             IN /\ locals' = l
                /\ rows' = RowsAppend(rows, MakeRow(tickers[idx], l))
                /\ idx' = NextIdx(idx, failed)
                /\ pc' = NextPc("yahoo", idx' <= Len(tickers))
          /\ yahooRet' = Append(yahooRet, [info |-> info, hist |-> hist])
    /\ yahooReq' = [yahooReq EXCEPT ![idx] = @ + 1]
    /\ UNCHANGED <<tickers, df, df_display, styled_df, zacksReq, zacksRet>>
    /\ UNCHANGED <<rankVars, fmtVars, upc>>

\* pd.DataFrame(rows), sort_values, the column selection and the Styler
Display ==
    /\ pc = "display"
    /\ df' = SortValues(rows)
    /\ df_display' = [i \in 1 .. Len(df') |-> DisplayColumns(df'[i])]
    /\ styled_df' = Styler(df_display')
    /\ pc' = NextPc("display", FALSE)
    /\ UNCHANGED <<tickers, idx, locals, rows, zacksReq, yahooReq,
                   zacksRet, yahooRet>>
    /\ UNCHANGED <<rankVars, fmtVars, upc>>

Next == FetchData \/ ZacksStep \/ YahooStep \/ Display

Spec == Init /\ [][Next]_vars

\* ------------------------------------------------- get_zacks_rank alone
PageTokens == {Noise} \cup {Phrase(d, w) : d \in Digits,
                                           w \in Phrases \cup {"Neutral"}}
PageTexts == UNION {[1 .. n -> PageTokens] : n \in 0 .. MaxPageLen}
RankResponses == {HttpFail} \cup {HttpOk(t) : t \in PageTexts}

InitRank ==
    /\ tickers = <<>>
    /\ HandlerIdle
    /\ r \in RankResponses
    /\ rank_ret = NoRank
    /\ FmtIdle
    /\ upc = "call"

GetZacksRank ==
    /\ upc = "call"
    /\ rank_ret' = get_zacks_rank(r)
    /\ upc' = "returned"
    /\ UNCHANGED <<handlerVars, r, fmtVars>>

NextRank == GetZacksRank

SpecRank == InitRank /\ [][NextRank]_vars

\* ------------------------------ yahoo_rating_text and text_color_yahoo alone
MeanValues == {None} \cup {Some(n) : n \in 0 .. MeanMax}

InitFmt ==
    /\ tickers = <<>>
    /\ HandlerIdle
    /\ RankIdle
    /\ val \in MeanValues
    /\ tie \in BOOLEAN
    /\ yahoo_display = Dash
    /\ yahoo_style = NoStyle
    /\ upc = "format"

YahooRatingText ==
    /\ upc = "format"
    /\ yahoo_display' = yahoo_rating_text(val, tie)
    /\ upc' = "style"
    /\ UNCHANGED <<handlerVars, rankVars, val, tie, yahoo_style>>

TextColorYahoo ==
    /\ upc = "style"
    /\ yahoo_style' = text_color_yahoo(yahoo_display)
    /\ upc' = "styled"
    /\ UNCHANGED <<handlerVars, rankVars, val, tie, yahoo_display>>

NextFmt == YahooRatingText \/ TextColorYahoo

SpecFmt == InitFmt /\ [][NextFmt]_vars

\* ================================================================== claims
Occurrences(s, x) == Cardinality({i \in 1 .. Len(s) : s[i] = x})
Range(s) == {s[i] : i \in 1 .. Len(s)}
IsPermutation(s, t) ==
    /\ Len(s) = Len(t)
    /\ \A x \in Range(s) \cup Range(t) : Occurrences(s, x) = Occurrences(t, x)
TickerColumn(table) == [i \in 1 .. Len(table) |-> table[i].Ticker]
RankFailed(i) == isna(zacksRet[i].num)
MarketFailed(i) == ~yahooRet[i].info.ok \/ ~yahooRet[i].hist.ok

\* C1: one fetch trigger produces a table with exactly one row per ticker
\* occurrence: as many rows as input tickers, and the multiset of the Ticker
\* values of the rows is the multiset of the input tickers, whatever the
\* fetches returned.
RowPerTickerOccurrence ==
    /\ pc \in {"zacks", "yahoo"} => Len(rows) = idx - 1
    /\ pc \in {"display", "done"} => IsPermutation(TickerColumn(rows), tickers)
    /\ pc = "done" => /\ IsPermutation(TickerColumn(df), tickers)
                      /\ IsPermutation(TickerColumn(df_display), tickers)
                      /\ Len(styled_df) = Len(tickers)

RowPerTickerWitness ==
    /\ pc = "done"
    /\ Len(tickers) = 2
    /\ tickers[1] = tickers[2]
    /\ RankFailed(1)
    /\ MarketFailed(2)
    /\ Len(df_display) = 2

\* C2: a numeric rank returned by get_zacks_rank is an integer in 1..5, the
\* label carries that integer and one of the five phrases, and the numeric
\* rank and the label are both present or both absent.
RankInOneToFive ==
    upc = "returned" =>
        /\ isna(rank_ret.num) <=> isna(rank_ret.text)
        /\ ~isna(rank_ret.num) =>
              /\ Val(rank_ret.num) \in 1 .. 5
              /\ Val(rank_ret.text).n = Val(rank_ret.num)
              /\ Val(rank_ret.text).word \in Phrases

\* C3: when a step of a ticker's market-data fetch fails, every market-data
\* field of that ticker's row is absent: company, current price, percent
\* change, analyst mean and target price.
FailedFetchAllAbsent ==
    \A i \in 1 .. Len(rows) :
        MarketFailed(i) =>
            /\ isna(rows[i].Company)
            /\ isna(rows[i].CurrentPrice)
            /\ isna(rows[i].TodayPctChange)
            /\ rows[i].YahooAvgRating = Dash
            /\ isna(rows[i].YahooTarget)

\* what the market source returned for occurrence i, field by field
ReturnedCloses(i) ==
    IF yahooRet[i].info.ok /\ yahooRet[i].hist.ok
    THEN dropna(yahooRet[i].hist.close) ELSE <<>>
ReturnedInfo(i, complete) ==
    IF yahooRet[i].info.ok /\ (yahooRet[i].hist.ok \/ ~complete)
    THEN yahooRet[i].info ELSE InfoEmpty

\* C4: failure isolation: the row of every ticker occurrence carries exactly
\* the rank and the market values its own fetches returned, whatever the
\* fetches of the other tickers of the batch did, and a failure never stops
\* the batch: inside the loop there is always a current ticker, so the next
\* step of the handler can be taken.
FailureIsolation ==
    /\ \A i \in 1 .. Len(rows) :
        LET c == ReturnedCloses(i)
            n == Len(c)
        IN /\ rows[i].Ticker = tickers[i]
           /\ rows[i].ZacksNumeric = zacksRet[i].num
           /\ rows[i].ZacksRank = zacksRet[i].text
           /\ rows[i].Company = ReturnedInfo(i, FALSE).shortName
           /\ rows[i].YahooTarget = ReturnedInfo(i, TRUE).targetMeanPrice
           /\ rows[i].YahooAvgRating.dash
                 = isna(ReturnedInfo(i, TRUE).recommendationMean)
           /\ ~rows[i].YahooAvgRating.dash =>
                 rows[i].YahooAvgRating.num * 10
                    = Val(ReturnedInfo(i, TRUE).recommendationMean)
           /\ rows[i].CurrentPrice = IF n = 0 THEN None ELSE Some(c[n])
           /\ isna(rows[i].TodayPctChange) <=> (n < 2 \/ c[n - 1] = 0)
           /\ ~isna(rows[i].TodayPctChange) =>
                 Val(rows[i].TodayPctChange) * c[n - 1] = (c[n] - c[n - 1]) * 100
    /\ pc \in {"zacks", "yahoo"} => idx <= Len(tickers)

FailureIsolationWitness ==
    /\ pc = "done"
    /\ Len(tickers) = 2
    /\ ~RankFailed(1) /\ ~MarketFailed(1)
    /\ RankFailed(2) /\ MarketFailed(2)
    /\ ~isna(rows[1].Company) /\ ~isna(rows[1].CurrentPrice)
    /\ isna(rows[2].CurrentPrice) /\ isna(rows[2].ZacksNumeric)

\* C5: the displayed rows are a permutation of the built rows, ordered by
\* numeric rank ascending with the rows without a rank after the rows with
\* one: of two consecutive rows, both ranks are present and the first is <=
\* the second, or the second rank is absent.
SortedAbsentLast ==
    pc = "done" =>
        /\ IsPermutation(df, rows)
        /\ df_display = [i \in 1 .. Len(df) |-> DisplayColumns(df[i])]
        /\ \A i \in 1 .. Len(df) - 1 :
              \/ /\ ~isna(df[i].ZacksNumeric)
                 /\ ~isna(df[i + 1].ZacksNumeric)
                 /\ Val(df[i].ZacksNumeric) <= Val(df[i + 1].ZacksNumeric)
              \/ isna(df[i + 1].ZacksNumeric)

SortedAbsentLastWitness ==
    /\ pc = "done"
    /\ Len(rows) = 2
    /\ isna(rows[1].ZacksNumeric)
    /\ ~isna(rows[2].ZacksNumeric)
    /\ df[1] = rows[2]
    /\ df[2] = rows[1]

\* C6: yahoo_rating_text gives Strong Buy below 1.5, Buy from 1.5 to below
\* 2.5, Hold from 2.5 to below 3.5, Sell from 3.5 to below 4.5 and Strong
\* Sell from 4.5 on; 4.6 gives "4.60 - Strong Sell".
RatingWordThresholds ==
    (upc \in {"style", "styled"} /\ ~isna(val)) =>
        LET n == Val(val)
        IN /\ ~yahoo_display.dash
           /\ n < 1500 => yahoo_display.txt = "Strong Buy"
           /\ (n >= 1500 /\ n < 2500) => yahoo_display.txt = "Buy"
           /\ (n >= 2500 /\ n < 3500) => yahoo_display.txt = "Hold"
           /\ (n >= 3500 /\ n < 4500) => yahoo_display.txt = "Sell"
           /\ n >= 4500 => yahoo_display.txt = "Strong Sell"
           /\ n = 4600 => yahoo_display = Rating(460, "Strong Sell")

RatingWordWitness ==
    /\ upc = "styled"
    /\ val = Some(2500)
    /\ yahoo_display = Rating(250, "Hold")

SingleAttempt ==
    \A i \in 1 .. Len(tickers) :
        /\ zacksReq[i] <= 1
        /\ yahooReq[i] <= 1
        /\ pc = "done" => (zacksReq[i] = 1 /\ yahooReq[i] = 1)

SingleAttemptWitness ==
    /\ pc = "done"
    /\ \E i \in 1 .. Len(tickers) :
          /\ RankFailed(i)
          /\ ~yahooRet[i].info.ok
          /\ zacksReq[i] = 1
          /\ yahooReq[i] = 1

StyleOfWord(w) ==
    CASE w = "Strong Buy" -> StrongGreen
      [] w = "Buy" -> Green
      [] w = "Hold" -> Yellow
      [] w = "Sell" -> Red
      [] w = "Strong Sell" -> StrongRed

\* C9: the severity bucket text_color_yahoo gives the display string of
\* yahoo_rating_text is the bucket of the rating word in that string.
StyleBucketIsWordBucket ==
    (upc = "styled" /\ ~isna(val)) =>
        yahoo_style = StyleOfWord(yahoo_display.txt)

\* C10: the style of a row's Yahoo Target cell compares that row's target
\* price with that same row's current price.
TargetStyleOfOwnRow ==
    pc = "done" =>
        \A i \in 1 .. Len(df_display) :
            styled_df[i].YahooTarget
                = text_color_target(df_display[i].YahooTarget,
                                    df_display[i].CurrentPrice)

====
